---- MODULE Spec2Model ----
(***************************************************************************)
(* Fisheye-to-perspective conversion: the camera models of camera.py, the  *)
(* factory, and the undistortion-map pipeline of projection.py.            *)
(*                                                                         *)
(* Real numbers are fixed-point integers with Scale units per 1.0; the     *)
(* IEEE values nan, inf and -inf that numpy produces instead of raising    *)
(* are the integers NaN, PInf and NInf.  Every rounding is to nearest, half*)
(* away from zero, so that, as in IEEE arithmetic, f(-a) = -f(a) for       *)
(* multiplication, division and the odd functions.                         *)
(***************************************************************************)
EXTENDS Integers, Sequences, FiniteSets, TLC

\* ------------------------------------------------------------------------
\* Arithmetic
\* ------------------------------------------------------------------------
Scale == 10 ^ 3

\* the non-finite IEEE values; every finite value lies strictly between
\* NInf and PInf
PInf == 10 ^ 9
NInf == -(10 ^ 9)
NaN == 10 ^ 9 + 1

IsNum(v) == NInf < v /\ v < PInf

Abs(a) == IF a < 0 THEN -a ELSE a

Sgn(a) == IF a < 0 THEN -1 ELSE IF a = 0 THEN 0 ELSE 1

\* sign of an extended value that is not NaN
XSgn(v) == IF v = PInf THEN 1 ELSE IF v = NInf THEN -1 ELSE Sgn(v)

SignedInf(s) == IF s < 0 THEN NInf ELSE PInf

\* a / b on integers, rounded to nearest, b # 0
RDiv(a, b) == Sgn(a) * Sgn(b) * ((2 * Abs(a) + Abs(b)) \div (2 * Abs(b)))

\* from an integer to fixed point
Fix(n) == n * Scale

Neg(v) == IF v = NaN THEN NaN
          ELSE IF v = PInf THEN NInf
          ELSE IF v = NInf THEN PInf
          ELSE -v

XAdd(a, b) ==
    IF a = NaN \/ b = NaN THEN NaN
    ELSE IF IsNum(a) /\ IsNum(b) THEN a + b
    ELSE IF IsNum(a) THEN b
    ELSE IF IsNum(b) THEN a
    ELSE IF a = b THEN a ELSE NaN

XMul(a, b) ==
    IF a = NaN \/ b = NaN THEN NaN
    ELSE IF IsNum(a) /\ IsNum(b) THEN RDiv(a * b, Scale)
    ELSE IF XSgn(a) = 0 \/ XSgn(b) = 0 THEN NaN
    ELSE SignedInf(XSgn(a) * XSgn(b))

XDiv(a, b) ==
    IF a = NaN \/ b = NaN THEN NaN
    ELSE IF IsNum(a) /\ IsNum(b)
         THEN IF b # 0 THEN RDiv(a * Scale, b)
              ELSE IF a = 0 THEN NaN ELSE SignedInf(a)
    ELSE IF IsNum(a) THEN 0
    ELSE IF IsNum(b) THEN SignedInf(XSgn(a) * (IF b < 0 THEN -1 ELSE 1))
    ELSE NaN

\* floor of the square root of a natural number (Newton's iteration)
RECURSIVE NewtonSqrt(_, _)
NewtonSqrt(n, x) ==
    LET y == (x + n \div x) \div 2
    IN  IF y >= x THEN x ELSE NewtonSqrt(n, y)

ISqrt(n) == IF n = 0 THEN 0 ELSE NewtonSqrt(n, n)

\* k further decimal digits of a square root, schoolbook method
RECURSIVE SqrtDigits(_, _, _)
SqrtDigits(r, rem, k) ==
    IF k = 0 THEN r
    ELSE LET rem2 == rem * 100
             d == CHOOSE e \in 0..9 :
                     /\ (20 * r + e) * e <= rem2
                     /\ (e = 9 \/ (20 * r + e + 1) * (e + 1) > rem2)
         IN  SqrtDigits(10 * r + d, rem2 - (20 * r + d) * d, k - 1)

\* sqrt of a natural number n, as fixed point
SqrtOfInt(n) ==
    LET r0 == ISqrt(n)
    IN  SqrtDigits(r0, n - r0 * r0, 3)

\* sqrt of a fixed-point value
XSqrt(a) ==
    IF a = NaN \/ a = NInf THEN NaN
    ELSE IF a = PInf THEN PInf
    ELSE IF a < 0 THEN NaN
    ELSE ISqrt(a * Scale)

\* pi, pi/2 and pi/4, fixed point
Pi == RDiv(3141593, 10 ^ 6 \div Scale)
HalfPi == RDiv(1570796, 10 ^ 6 \div Scale)
QuarterPi == RDiv(785398, 10 ^ 6 \div Scale)

\* degrees (fixed point) to radians (fixed point): a * 0.0174533
XRadians(a) ==
    IF ~IsNum(a) THEN a
    ELSE Sgn(a) * ((Abs(a) * 1745 + (Abs(a) * 33) \div 100 + 50000) \div 100000)

\* cosine of a fixed-point angle in [0, pi/4], Taylor polynomial (Horner form)
CosCore(x) ==
    LET x2 == RDiv(x * x, Scale)
        t6 == Scale - RDiv(x2, 56)
        t4 == Scale - RDiv(RDiv(x2 * t6, Scale), 30)
        t2 == Scale - RDiv(RDiv(x2 * t4, Scale), 12)
    IN  Scale - RDiv(RDiv(x2 * t2, Scale), 2)

\* sine of a fixed-point angle in [0, pi/4], Taylor polynomial (Horner form)
SinCore(x) ==
    LET x2 == RDiv(x * x, Scale)
        t9 == Scale - RDiv(x2, 72)
        t7 == Scale - RDiv(RDiv(x2 * t9, Scale), 42)
        t5 == Scale - RDiv(RDiv(x2 * t7, Scale), 20)
        t3 == Scale - RDiv(RDiv(x2 * t5, Scale), 6)
    IN  RDiv(x * t3, Scale)

\* sine of a fixed-point angle in [0, pi/2]
SinQuarter(x) ==
    IF 2 * x <= HalfPi THEN SinCore(x) ELSE CosCore(HalfPi - x)

\* sine of a fixed-point angle in [0, 2 pi)
SinReduced(x) ==
    (IF x <= Pi THEN 1 ELSE -1)
    * SinQuarter(IF x <= HalfPi THEN x
                 ELSE IF x <= Pi THEN Pi - x
                 ELSE IF x <= Pi + HalfPi THEN x - Pi
                 ELSE 2 * Pi - x)

XSin(a) ==
    IF ~IsNum(a) THEN NaN
    ELSE Sgn(a) * SinReduced(Abs(a) % (2 * Pi))

XCos(a) == IF ~IsNum(a) THEN NaN ELSE XSin(Abs(a) + HalfPi)

XTan(a) == XDiv(XSin(a), XCos(a))

\* arctan of a fixed-point z with |z| <= 0.42, Taylor polynomial
AtanCore(z) ==
    LET z2 == RDiv(z * z, Scale)
        t7 == RDiv(Scale, 7) - RDiv(z2, 9)
        t5 == RDiv(Scale, 5) - RDiv(z2 * t7, Scale)
        t3 == RDiv(Scale, 3) - RDiv(z2 * t5, Scale)
        t1 == Scale - RDiv(z2 * t3, Scale)
    IN  RDiv(z * t1, Scale)

\* arctan of a fixed-point z in [0, 1]
AtanUnit(z) ==
    (IF 1000 * z <= 414 * Scale THEN 0 ELSE QuarterPi)
    + AtanCore(IF 1000 * z <= 414 * Scale THEN z
               ELSE RDiv((z - Scale) * Scale, z + Scale))

\* arctan of a fixed-point z >= 0
AtanPos(z) ==
    (IF z <= Scale THEN 0 ELSE HalfPi)
    + (IF z <= Scale THEN 1 ELSE -1)
      * AtanUnit(IF z <= Scale THEN z ELSE RDiv(Scale * Scale, z))

XArctan(a) ==
    IF a = NaN THEN NaN
    ELSE IF a = PInf THEN HalfPi
    ELSE IF a = NInf THEN -HalfPi
    ELSE Sgn(a) * AtanPos(Abs(a))

XArcsin(a) ==
    IF ~IsNum(a) THEN NaN
    ELSE IF Abs(a) > Scale THEN NaN
    ELSE IF Abs(a) = Scale THEN Sgn(a) * HalfPi
    ELSE Sgn(a) * AtanPos(RDiv(Abs(a) * Scale,
                               ISqrt((Scale - Abs(a)) * (Scale + Abs(a)))))

\* a equals b up to tol units of 1 / Scale per unit of magnitude of b, as a
\* floating-point comparison has a relative tolerance; non-finite values
\* match only themselves
Near(a, b, tol) ==
    IF IsNum(a) /\ IsNum(b)
    THEN Abs(a - b) <= tol * (1 + Abs(b) \div Scale)
    ELSE a = b

Max(a, b) == IF a >= b THEN a ELSE b

\* sqrt(a^2 + b^2) of finite fixed-point values, computed as
\* m * sqrt(1 + (n / m)^2) with m the larger magnitude
FixHypot(a, b) ==
    LET m == Max(Abs(a), Abs(b))
        n == IF Abs(a) >= Abs(b) THEN Abs(b) ELSE Abs(a)
        q == RDiv(n * Scale, m)
    IN  IF n = 0 THEN m
        ELSE RDiv(m * ISqrt((Scale + RDiv(q * q, Scale)) * Scale), Scale)

\* ------------------------------------------------------------------------
\* camera.py: the four camera models and the factory
\* ------------------------------------------------------------------------
CameraType == {"EQUIDISTANT", "EQUISOLID", "ORTHOGRAPHIC", "STEREOGRAPHIC"}

\* a value that is not a member of the CameraType enumeration
OtherTag == "OTHER"

Two == Fix(2)

\* r = f * theta
EquidistantCamera_theta_to_r(f, theta) == XMul(f, theta)

EquidistantCamera_r_to_theta(f, r) == XDiv(r, f)

EquidistantCamera_f_from_theta_and_r(theta_max, r_max) == XDiv(r_max, theta_max)

\* r = 2 * f * sin(theta / 2)
EquisolidCamera_theta_to_r(f, theta) ==
    XMul(XMul(Two, f), XSin(XDiv(theta, Two)))

EquisolidCamera_r_to_theta(f, r) ==
    XMul(Two, XArcsin(XDiv(r, XMul(Two, f))))

\* the derivation without the factor 2 of the equisolid relation
EquisolidCamera_f_from_theta_and_r_NoTwo(theta_max, r_max) ==
    XDiv(r_max, XSin(XDiv(theta_max, Two)))

EquisolidCamera_f_from_theta_and_r(theta_max, r_max) ==
    XDiv(r_max, XMul(Two, XSin(XDiv(theta_max, Two))))

\* r = f * sin(theta)
OrthographicCamera_theta_to_r(f, theta) == XMul(f, XSin(theta))

OrthographicCamera_r_to_theta(f, r) == XArcsin(XDiv(r, f))

OrthographicCamera_f_from_theta_and_r(theta_max, r_max) ==
    XDiv(r_max, XSin(theta_max))

\* r = 2 * f * tan(theta / 2)
StereographicCamera_theta_to_r(f, theta) ==
    XMul(XMul(Two, f), XTan(XDiv(theta, Two)))

\* the inverse with r / f instead of r / (2 f)
StereographicCamera_r_to_theta_NoTwo(f, r) ==
    XMul(Two, XArctan(XDiv(r, f)))

StereographicCamera_r_to_theta(f, r) ==
    XMul(Two, XArctan(XDiv(r, XMul(Two, f))))

StereographicCamera_f_from_theta_and_r(theta_max, r_max) ==
    XDiv(r_max, XMul(Two, XTan(XDiv(theta_max, Two))))

\* the constructors only store the focal length
NewCamera(cls, focal_length) == [cls |-> cls, _focal_length |-> focal_length]

\* the focal_length property
focal_length(camera) == camera._focal_length

\* method dispatch on the instance's class
theta_to_r(camera, theta) ==
    CASE camera.cls = "EQUIDISTANT" ->
             EquidistantCamera_theta_to_r(camera._focal_length, theta)
      [] camera.cls = "EQUISOLID" ->
             EquisolidCamera_theta_to_r(camera._focal_length, theta)
      [] camera.cls = "ORTHOGRAPHIC" ->
             OrthographicCamera_theta_to_r(camera._focal_length, theta)
      [] camera.cls = "STEREOGRAPHIC" ->
             StereographicCamera_theta_to_r(camera._focal_length, theta)

r_to_theta(camera, r) ==
    CASE camera.cls = "EQUIDISTANT" ->
             EquidistantCamera_r_to_theta(camera._focal_length, r)
      [] camera.cls = "EQUISOLID" ->
             EquisolidCamera_r_to_theta(camera._focal_length, r)
      [] camera.cls = "ORTHOGRAPHIC" ->
             OrthographicCamera_r_to_theta(camera._focal_length, r)
      [] camera.cls = "STEREOGRAPHIC" ->
             StereographicCamera_r_to_theta(camera._focal_length, r)

\* create_camera with a default variant in place of the final raise
create_camera_Default(camera_type, f) ==
    IF camera_type = "EQUISOLID"
    THEN [raised |-> "", value |-> <<NewCamera("EQUISOLID", f)>>]
    ELSE IF camera_type = "ORTHOGRAPHIC"
    THEN [raised |-> "", value |-> <<NewCamera("ORTHOGRAPHIC", f)>>]
    ELSE IF camera_type = "STEREOGRAPHIC"
    THEN [raised |-> "", value |-> <<NewCamera("STEREOGRAPHIC", f)>>]
    ELSE [raised |-> "", value |-> <<NewCamera("EQUIDISTANT", f)>>]

\* FisheyeCameraFactory.create_camera: the instance, or the error raised
create_camera(camera_type, f) ==
    IF camera_type = "EQUIDISTANT"
    THEN [raised |-> "", value |-> <<NewCamera("EQUIDISTANT", f)>>]
    ELSE IF camera_type = "EQUISOLID"
    THEN [raised |-> "", value |-> <<NewCamera("EQUISOLID", f)>>]
    ELSE IF camera_type = "ORTHOGRAPHIC"
    THEN [raised |-> "", value |-> <<NewCamera("ORTHOGRAPHIC", f)>>]
    ELSE IF camera_type = "STEREOGRAPHIC"
    THEN [raised |-> "", value |-> <<NewCamera("STEREOGRAPHIC", f)>>]
    ELSE [raised |-> "ValueError", value |-> <<>>]

\* FisheyeCameraFactory.f_from_theta_and_r: the focal length, or the error
f_from_theta_and_r(camera_type, theta, r) ==
    IF camera_type = "EQUIDISTANT"
    THEN [raised |-> "",
          value |-> <<EquidistantCamera_f_from_theta_and_r(theta, r)>>]
    ELSE IF camera_type = "EQUISOLID"
    THEN [raised |-> "",
          value |-> <<EquisolidCamera_f_from_theta_and_r(theta, r)>>]
    ELSE IF camera_type = "ORTHOGRAPHIC"
    THEN [raised |-> "",
          value |-> <<OrthographicCamera_f_from_theta_and_r(theta, r)>>]
    ELSE IF camera_type = "STEREOGRAPHIC"
    THEN [raised |-> "",
          value |-> <<StereographicCamera_f_from_theta_and_r(theta, r)>>]
    ELSE [raised |-> "ValueError", value |-> <<>>]

\* ------------------------------------------------------------------------
\* projection.py: FisheyeToPerspective
\* ------------------------------------------------------------------------
FisheyeFormat == {"CIRCULAR", "DIAGONAL"}

\* largest image side for which the whole pixel grid is kept in the state;
\* of a larger image only the pixels of SamplePixels are kept
MaxDim == 4

Min(a, b) == IF a <= b THEN a ELSE b

\* app.py, FisheyeSettingsDialog.submit: the text "-1,-1" means no resize
submit(output_shape) == IF output_shape = <<-1, -1>> THEN <<>> ELSE output_shape

\* read_image with the centre taken as dim // 2 instead of (dim - 1) // 2
read_image_CentreHalf(file) ==
    IF ~file.exists THEN [raised |-> "FileNotFoundError", value |-> <<>>]
    ELSE IF ~file.decodable THEN [raised |-> "ValueError", value |-> <<>>]
    ELSE LET height0 == file.height
             width0 == file.width
             dim == Min(width0, height0)
             offset_x == (width0 - dim) \div 2
             offset_y == (height0 - dim) \div 2
             image == [x0 |-> offset_x, y0 |-> offset_y,
                       rows |-> Min(offset_y + dim, height0) - offset_y,
                       cols |-> Min(offset_x + dim, width0) - offset_x]
         IN  [raised |-> "",
              value |-> <<[image |-> image,
                           _height |-> image.rows,
                           _width |-> image.cols,
                           _x_center |-> image.cols \div 2,
                           _y_center |-> image.rows \div 2]>>]

\* read_image: the fields it stores, or the error raised.  The image is the
\* rectangle of the decoded file that the slice keeps.
read_image(file) ==
    IF ~file.exists THEN [raised |-> "FileNotFoundError", value |-> <<>>]
    ELSE IF ~file.decodable THEN [raised |-> "ValueError", value |-> <<>>]
    ELSE LET height0 == file.height
             width0 == file.width
             dim == Min(width0, height0)
             offset_x == (width0 - dim) \div 2
             offset_y == (height0 - dim) \div 2
             image == [x0 |-> offset_x, y0 |-> offset_y,
                       rows |-> Min(offset_y + dim, height0) - offset_y,
                       cols |-> Min(offset_x + dim, width0) - offset_x]
         IN  [raised |-> "",
              value |-> <<[image |-> image,
                           _height |-> image.rows,
                           _width |-> image.cols,
                           _x_center |-> (image.cols - 1) \div 2,
                           _y_center |-> (image.rows - 1) \div 2]>>]

\* get_perspective_width
get_perspective_width(self) ==
    IF self._format = "CIRCULAR"
    THEN [raised |-> "", value |-> <<Fix(Min(self._width, self._height))>>]
    ELSE IF self._format = "DIAGONAL"
    THEN [raised |-> "",
          value |-> <<SqrtOfInt(self._width * self._width
                                + self._height * self._height)>>]
    ELSE [raised |-> "ValueError", value |-> <<>>]

\* focal_length_from_fov
focal_length_from_fov(fov, width) ==
    XDiv(width, XMul(Two, XTan(XDiv(XRadians(fov), Two))))

\* the pixels of a D x D grid kept in the state, as <<row, column>>
SamplePixels(D) ==
    LET c == (D - 1) \div 2
    IN  {<<0, 0>>, <<c, c>>, <<c - 1, c - 1>>, <<c + 1, c + 1>>,
         <<c, D - 1>>, <<D - 1, D - 1>>}

Pixels(rows, cols) ==
    IF rows <= MaxDim /\ cols <= MaxDim
    THEN (0 .. rows - 1) \X (0 .. cols - 1)
    ELSE SamplePixels(Min(rows, cols))

\* generate_meshgrid: x and y of every pixel, recentred
generate_meshgrid(self) ==
    [shape |-> <<self._height, self._width>>,
     x |-> [p \in Pixels(self._height, self._width) |-> p[2] - self._x_center],
     y |-> [p \in Pixels(self._height, self._width) |-> p[1] - self._y_center]]

\* np.hypot on integer coordinates
Hypot(x, y) == SqrtOfInt(x * x + y * y)

\* MapEntry with the masked entry set to the centre instead of left at zero
MapEntry_CentreFilled(camera, pfocal, x, y, v, center) ==
    LET distorted_r == Hypot(x, y)
        theta == XArctan(XDiv(distorted_r, pfocal))
        perspective_r == theta_to_r(camera, theta)
    IN  IF distorted_r # 0
        THEN XAdd(XMul(XDiv(perspective_r, distorted_r), Fix(v)), Fix(center))
        ELSE Fix(center)

\* one entry of map_x or map_y: v is the pixel's x (or y), center the
\* matching _x_center (or _y_center)
MapEntry(camera, pfocal, x, y, v, center) ==
    LET distorted_r == Hypot(x, y)
        theta == XArctan(XDiv(distorted_r, pfocal))
        perspective_r == theta_to_r(camera, theta)
    IN  IF distorted_r # 0
        THEN XAdd(XMul(XDiv(perspective_r, distorted_r), Fix(v)), Fix(center))
        ELSE 0

\* init_undistort_map, lines 107-114: the camera for the derived focal
\* length focal_fisheye, then the two maps; or the error raised
MapsFor(self, xy, pfocal, focal_fisheye) ==
    IF focal_fisheye.raised # ""
    THEN [raised |-> focal_fisheye.raised, value |-> <<>>]
    ELSE IF create_camera(self._camera_type, focal_fisheye.value[1]).raised # ""
    THEN [raised |-> "ValueError", value |-> <<>>]
    ELSE [raised |-> "",
          value |-> <<[shape |-> xy.shape,
                       map_x |-> [p \in DOMAIN xy.x |->
                           MapEntry(create_camera(self._camera_type,
                                                  focal_fisheye.value[1]).value[1],
                                    pfocal, xy.x[p], xy.y[p],
                                    xy.x[p], self._x_center)],
                       map_y |-> [p \in DOMAIN xy.y |->
                           MapEntry(create_camera(self._camera_type,
                                                  focal_fisheye.value[1]).value[1],
                                    pfocal, xy.x[p], xy.y[p],
                                    xy.y[p], self._y_center)]]>>]

\* init_undistort_map: the two maps, or the error raised by the factory
init_undistort_map(self, xy, pfocal, dim) ==
    MapsFor(self, xy, pfocal,
            f_from_theta_and_r(self._camera_type, XRadians(self._rfov),
                               XDiv(dim, Two)))

\* cv2.resize(src, dsize, interpolation=INTER_LINEAR): source index and
\* weight of destination index d along an axis of src_n samples
ResizeTap(d, src_n, dst_n) ==
    LET fx == RDiv((2 * d + 1) * src_n * Scale, 2 * dst_n) - Scale \div 2
        sx == fx \div Scale
    IN  IF sx < 0 THEN [i |-> 0, j |-> Min(1, src_n - 1), t |-> 0]
        ELSE IF sx >= src_n - 1 THEN [i |-> src_n - 1, j |-> src_n - 1, t |-> 0]
        ELSE [i |-> sx, j |-> sx + 1, t |-> fx - sx * Scale]

Lerp(a, b, t) == XAdd(XMul(a, Scale - t), XMul(b, t))

\* cv2.resize of one map; dsize is (width, height), the result has
\* dsize[2] rows and dsize[1] columns
resize(src, dsize) ==
    IF dsize[1] <= 0 \/ dsize[2] <= 0
    THEN [raised |-> "cv2.error", value |-> <<>>]
    ELSE [raised |-> "",
          value |-> <<[shape |-> <<dsize[2], dsize[1]>>,
                       val |-> [p \in (0 .. dsize[2] - 1) \X (0 .. dsize[1] - 1) |->
                           LET r == ResizeTap(p[1], src.shape[1], dsize[2])
                               c == ResizeTap(p[2], src.shape[2], dsize[1])
                           IN  Lerp(Lerp(src.val[<<r.i, c.i>>],
                                         src.val[<<r.i, c.j>>], c.t),
                                    Lerp(src.val[<<r.j, c.i>>],
                                         src.val[<<r.j, c.j>>], c.t),
                                    r.t)]]>>]

\* cv2.remap(image, map_x, map_y): one output pixel per map entry
remap(image, mx, my) ==
    IF mx.shape # my.shape
    THEN [raised |-> "cv2.error", value |-> <<>>]
    ELSE [raised |-> "", value |-> <<[shape |-> mx.shape, source |-> image]>>]

\* ------------------------------------------------------------------------
\* Inputs
\* ------------------------------------------------------------------------
\* image sizes beyond MaxDim that the scenarios of the specification name
BigSizes == {<<512, 512>>, <<640, 480>>}

SmallFiles ==
    { [exists |-> TRUE, decodable |-> TRUE, width |-> w, height |-> h] :
        w \in 1 .. MaxDim, h \in 1 .. MaxDim }

BigFiles ==
    { [exists |-> TRUE, decodable |-> TRUE, width |-> s[1], height |-> s[2]] :
        s \in BigSizes }

BadFiles ==
    { [exists |-> FALSE, decodable |-> FALSE, width |-> 0, height |-> 0],
      [exists |-> TRUE, decodable |-> FALSE, width |-> 0, height |-> 0] }

\* fields of view in degrees
Fovs == {Fix(90), Fix(180), Fix(200)}

PerspectiveFovs == {Fix(90), Fix(120)}

\* the texts of the dialog's output-shape field, as (width, height)
ShapeTexts == {<<-1, -1>>, <<3, 2>>, <<0, 0>>}

\* cli.py and scripts/main.py: no output shape, an output file
CliRequests ==
    { [image_file |-> f, fov |-> a, perspective_fov |-> b, camera_type |-> c,
       format |-> g, output_shape |-> <<>>, output_file |-> <<"out">>] :
        f \in SmallFiles \cup BigFiles \cup BadFiles, a \in Fovs,
        b \in PerspectiveFovs, c \in CameraType \cup {OtherTag},
        g \in FisheyeFormat \cup {OtherTag} }

\* app.py, MainWindow.compute: the dialog's form data, no output file
GuiRequests ==
    { [image_file |-> f, fov |-> a, perspective_fov |-> b, camera_type |-> c,
       format |-> g, output_shape |-> submit(t), output_file |-> <<>>] :
        f \in SmallFiles, a \in Fovs, b \in PerspectiveFovs,
        c \in CameraType, g \in FisheyeFormat, t \in ShapeTexts }

Requests == CliRequests \cup GuiRequests

\* number of times one object is called
MaxCalls == 2

\* ------------------------------------------------------------------------
\* State
\* ------------------------------------------------------------------------
VARIABLES
    pc,                 \* position in __init__ / __call__
    req,                \* the arguments of the constructor and of the call
    self,               \* <<>> or <<the object's fields>>
    dim,                \* locals of __call__: <<>> or <<value>>
    pfocal,
    xy,
    map_x,
    map_y,
    resized,            \* the maps cv2.resize was applied to in this call
    perspective_image,
    written,            \* <<>> or <<the image written to output_file>>
    raised,             \* the exception that ended the conversion, or ""
    calls,              \* number of calls of the object started
    last_maps,          \* <<>> or <<the maps of the last call that returned>>
    camera,             \* <<>> or <<the last create_camera call>>
    fres,               \* <<>> or <<the last f_from_theta_and_r call>>
    m1,                 \* <<>> or <<the last method call on camera>>
    m2                  \* <<>> or <<the call whose result m1 was applied to>>

pipeVars == <<pc, req, self, dim, pfocal, xy, map_x, map_y, resized,
              perspective_image, written, raised, calls, last_maps>>

camVars == <<camera, fres, m1, m2>>

vars == <<pc, req, self, dim, pfocal, xy, map_x, map_y, resized,
          perspective_image, written, raised, calls, last_maps,
          camera, fres, m1, m2>>

NoCam == camera = <<>> /\ fres = <<>> /\ m1 = <<>> /\ m2 = <<>>

NoLocals ==
    /\ dim = <<>> /\ pfocal = <<>> /\ xy = <<>> /\ map_x = <<>> /\ map_y = <<>>
    /\ resized = {} /\ perspective_image = <<>>

\* a conversion that has not been constructed yet
InitConversion ==
    /\ pc = "new"
    /\ req \in Requests
    /\ self = <<>>
    /\ NoLocals
    /\ written = <<>>
    /\ raised = ""
    /\ calls = 0
    /\ last_maps = <<>>
    /\ NoCam

\* ------------------------------------------------------------------------
\* The conversion: __init__ and the steps of __call__
\* ------------------------------------------------------------------------
Fail(e) ==
    /\ pc' = "failed"
    /\ raised' = e

\* FisheyeToPerspective.__init__
Construct ==
    /\ pc = "new"
    /\ LET r == read_image(req.image_file)
       IN  IF r.raised # ""
           THEN Fail(r.raised) /\ UNCHANGED self
           ELSE /\ self' = <<[_fov |-> req.fov,
                              _rfov |-> XDiv(req.fov, Two),
                              _perspective_fov |-> req.perspective_fov,
                              _format |-> req.format,
                              image |-> r.value[1].image,
                              _height |-> r.value[1]._height,
                              _width |-> r.value[1]._width,
                              _x_center |-> r.value[1]._x_center,
                              _y_center |-> r.value[1]._y_center,
                              _camera_type |-> req.camera_type,
                              _output_shape |-> req.output_shape]>>
                /\ pc' = "constructed"
                /\ UNCHANGED raised
    /\ UNCHANGED <<req, dim, pfocal, xy, map_x, map_y, resized,
                   perspective_image, written, calls,
                   last_maps, camVars>>

\* GetWidth with the output file opened, and so emptied, on entry
GetWidth_WritesEarly ==
    /\ pc \in {"constructed", "returned"}
    /\ calls < MaxCalls
    /\ calls' = calls + 1
    /\ pfocal' = <<>> /\ xy' = <<>> /\ map_x' = <<>> /\ map_y' = <<>>
    /\ resized' = {} /\ perspective_image' = <<>>
    /\ LET r == get_perspective_width(self[1])
       IN  IF r.raised # ""
           THEN Fail(r.raised) /\ dim' = <<>>
           ELSE dim' = r.value /\ pc' = "got_width" /\ UNCHANGED raised
    /\ written' = IF req.output_file # <<>>
                  THEN <<[shape |-> <<0, 0>>, source |-> self[1].image]>>
                  ELSE written
    /\ UNCHANGED <<req, self, last_maps, camVars>>

\* __call__ is entered: dim = self.get_perspective_width()
GetWidth ==
    /\ pc \in {"constructed", "returned"}
    /\ calls < MaxCalls
    /\ calls' = calls + 1
    /\ pfocal' = <<>> /\ xy' = <<>> /\ map_x' = <<>> /\ map_y' = <<>>
    /\ resized' = {} /\ perspective_image' = <<>>
    /\ LET r == get_perspective_width(self[1])
       IN  IF r.raised # ""
           THEN Fail(r.raised) /\ dim' = <<>>
           ELSE dim' = r.value /\ pc' = "got_width" /\ UNCHANGED raised
    /\ UNCHANGED <<req, self, written, last_maps, camVars>>

\* perspective_focal_length = self.focal_length_from_fov(...)
GetFocal ==
    /\ pc = "got_width"
    /\ pfocal' = <<focal_length_from_fov(self[1]._perspective_fov, dim[1])>>
    /\ pc' = "got_focal"
    /\ UNCHANGED <<req, self, dim, xy, map_x, map_y, resized,
                   perspective_image, written, raised, calls,
                   last_maps, camVars>>

\* x, y = self.generate_meshgrid()
Meshgrid ==
    /\ pc = "got_focal"
    /\ xy' = <<generate_meshgrid(self[1])>>
    /\ pc' = "got_grid"
    /\ UNCHANGED <<req, self, dim, pfocal, map_x, map_y, resized,
                   perspective_image, written, raised, calls,
                   last_maps, camVars>>

\* map_x, map_y = self.init_undistort_map(...)
UndistortMap ==
    /\ pc = "got_grid"
    /\ \E r \in {init_undistort_map(self[1], xy[1], pfocal[1], dim[1])} :
           IF r.raised # ""
           THEN Fail(r.raised) /\ UNCHANGED <<map_x, map_y>>
           ELSE /\ map_x' = <<[shape |-> r.value[1].shape,
                               val |-> r.value[1].map_x]>>
                /\ map_y' = <<[shape |-> r.value[1].shape,
                               val |-> r.value[1].map_y]>>
                /\ pc' = "got_map"
                /\ UNCHANGED raised
    /\ UNCHANGED <<req, self, dim, pfocal, xy, resized, perspective_image,
                   written, calls,
                   last_maps, camVars>>

\* the resize step applied to map_x only
Resize_OnlyMapX ==
    /\ pc = "got_map"
    /\ IF self[1]._output_shape # <<>>
       THEN LET rx == resize(map_x[1], self[1]._output_shape)
            IN  IF rx.raised # ""
                THEN Fail(rx.raised) /\ UNCHANGED <<map_x, map_y, resized>>
                ELSE /\ map_x' = rx.value
                     /\ map_y' = map_y
                     /\ resized' = {"map_x"}
                     /\ pc' = "resized"
                     /\ UNCHANGED raised
       ELSE pc' = "resized" /\ UNCHANGED <<map_x, map_y, resized, raised>>
    /\ UNCHANGED <<req, self, dim, pfocal, xy, perspective_image, written,
                   calls,
                   last_maps, camVars>>

\* if self._output_shape is not None: resize map_x, then map_y
Resize ==
    /\ pc = "got_map"
    /\ IF self[1]._output_shape # <<>>
       THEN LET rx == resize(map_x[1], self[1]._output_shape)
                ry == resize(map_y[1], self[1]._output_shape)
            IN  IF rx.raised # ""
                THEN Fail(rx.raised) /\ UNCHANGED <<map_x, map_y, resized>>
                ELSE /\ map_x' = rx.value
                     /\ map_y' = ry.value
                     /\ resized' = {"map_x", "map_y"}
                     /\ pc' = "resized"
                     /\ UNCHANGED raised
       ELSE pc' = "resized" /\ UNCHANGED <<map_x, map_y, resized, raised>>
    /\ UNCHANGED <<req, self, dim, pfocal, xy, perspective_image, written,
                   calls,
                   last_maps, camVars>>

\* perspective_image = cv2.remap(self.image, map_x, map_y, ...)
Remap ==
    /\ pc = "resized"
    /\ LET r == remap(self[1].image, map_x[1], map_y[1])
       IN  IF r.raised # ""
           THEN Fail(r.raised) /\ UNCHANGED perspective_image
           ELSE /\ perspective_image' = r.value
                /\ pc' = "remapped"
                /\ UNCHANGED raised
    /\ UNCHANGED <<req, self, dim, pfocal, xy, map_x, map_y, resized, written,
                   calls,
                   last_maps, camVars>>

\* if output_file is not None: cv2.imwrite(...); return perspective_image
WriteAndReturn ==
    /\ pc = "remapped"
    /\ written' = IF req.output_file # <<>> THEN perspective_image ELSE written
    /\ last_maps' = <<<<map_x[1], map_y[1]>>>>
    /\ pc' = "returned"
    /\ UNCHANGED <<req, self, dim, pfocal, xy, map_x, map_y, resized,
                   perspective_image, raised, calls, camVars>>


\* ------------------------------------------------------------------------
\* The factory and the camera methods, called directly.  One scenario derives
\* focal lengths, creates one camera, and calls its methods, on given
\* arguments or on the result of the previous call.
\* ------------------------------------------------------------------------
\* angles in radians: 0, 0.5, pi/4, 1, 1.3, pi/2 and 100 degrees
CamThetas ==
    {0, Scale \div 2, QuarterPi, Scale, (13 * Scale) \div 10, HalfPi,
     XRadians(Fix(100))}

\* radii in pixels
CamRs == {0, Fix(1), Fix(2)}

CamFocals == {-Fix(1), 0, Fix(1), Fix(5) \div 2}

\* a scenario of direct factory calls
InitFactory ==
    /\ pc = "factory"
    /\ req = <<>>
    /\ self = <<>>
    /\ NoLocals
    /\ written = <<>>
    /\ raised = ""
    /\ calls = 0
    /\ last_maps = <<>>
    /\ NoCam

\* FisheyeCameraFactory.f_from_theta_and_r(camera_type, theta, r)
FFromThetaAndR ==
    /\ pc = "factory"
    /\ camera = <<>>
    /\ \E t \in CameraType \cup {OtherTag}, theta \in CamThetas, r \in CamRs :
          LET res == f_from_theta_and_r(t, theta, r)
          IN  fres' = <<[camera_type |-> t, theta |-> theta, r |-> r,
                         raised |-> res.raised, value |-> res.value]>>
    /\ UNCHANGED <<camera, m1, m2, pipeVars>>

\* FisheyeCameraFactory.create_camera(camera_type, focal_length), with a
\* given focal length or with the one f_from_theta_and_r returned
CreateCamera ==
    /\ pc = "factory"
    /\ camera = <<>>
    /\ \E t \in CameraType \cup {OtherTag},
          f \in CamFocals \cup
                (IF fres # <<>> THEN {fres[1].value[i] : i \in DOMAIN fres[1].value}
                 ELSE {}) :
          LET res == create_camera(t, f)
          IN  camera' = <<[camera_type |-> t, focal_length |-> f,
                           raised |-> res.raised, value |-> res.value]>>
    /\ m1' = <<>>
    /\ m2' = <<>>
    /\ UNCHANGED <<fres, pipeVars>>

HasCamera == camera # <<>> /\ camera[1].value # <<>>

\* camera.theta_to_r(theta), theta given or the result of the last r_to_theta
ThetaToR ==
    /\ pc = "factory"
    /\ HasCamera
    /\ \/ \E theta \in CamThetas :
             /\ m1' = <<[op |-> "theta_to_r", arg |-> theta,
                         res |-> theta_to_r(camera[1].value[1], theta)]>>
             /\ m2' = <<>>
       \/ /\ m1 # <<>> /\ m2 = <<>> /\ m1[1].op = "r_to_theta"
          /\ m1' = <<[op |-> "theta_to_r", arg |-> m1[1].res,
                      res |-> theta_to_r(camera[1].value[1], m1[1].res)]>>
          /\ m2' = m1
    /\ UNCHANGED <<camera, fres, pipeVars>>

\* camera.r_to_theta(r), r given or the result of the last theta_to_r
RToTheta ==
    /\ pc = "factory"
    /\ HasCamera
    /\ \/ \E r \in CamRs :
             /\ m1' = <<[op |-> "r_to_theta", arg |-> r,
                         res |-> r_to_theta(camera[1].value[1], r)]>>
             /\ m2' = <<>>
       \/ /\ m1 # <<>> /\ m2 = <<>> /\ m1[1].op = "theta_to_r"
          /\ m1' = <<[op |-> "r_to_theta", arg |-> m1[1].res,
                      res |-> r_to_theta(camera[1].value[1], m1[1].res)]>>
          /\ m2' = m1
    /\ UNCHANGED <<camera, fres, pipeVars>>

\* ------------------------------------------------------------------------
\* Specification
\* ------------------------------------------------------------------------
Init == InitConversion \/ InitFactory

Next ==
    \/ Construct
    \/ GetWidth
    \/ GetFocal
    \/ Meshgrid
    \/ UndistortMap
    \/ Resize
    \/ Remap
    \/ WriteAndReturn
    \/ FFromThetaAndR
    \/ CreateCamera
    \/ ThetaToR
    \/ RToTheta

Spec == Init /\ [][Next]_vars

\* ------------------------------------------------------------------------
\* Properties
\* ------------------------------------------------------------------------
InConversion == pc # "factory"

\* the map returned by init_undistort_map is in map_x, map_y
MapBuilt == pc = "got_map"

\* recentred coordinates of the pixel <<row, column>>
GridX(p) == p[2] - self[1]._x_center
GridY(p) == p[1] - self[1]._y_center

\* C1: with format Diagonal the perspective width is sqrt(width^2 + height^2)
\* of the source image as decoded, before the square crop (640 x 480 gives
\* 800), and the perspective focal length is derived from it.
C1_DiagonalUsesPreCropSize ==
    (InConversion /\ req.format = "DIAGONAL" /\ dim # <<>>) =>
        /\ dim[1] = SqrtOfInt(req.image_file.width * req.image_file.width
                              + req.image_file.height * req.image_file.height)
        /\ pfocal # <<>> =>
               pfocal[1] = focal_length_from_fov(req.perspective_fov, dim[1])

\* C2: an Orthographic request whose half field of view exceeds 90 degrees
\* fails before any coordinate map or output image is produced.
C2_OrthographicOver90Fails ==
    (/\ InConversion
     /\ req.camera_type = "ORTHOGRAPHIC"
     /\ XDiv(req.fov, Two) > Fix(90)) =>
        /\ map_x = <<>>
        /\ map_y = <<>>
        /\ perspective_image = <<>>
        /\ written = <<>>
        /\ pc \notin {"got_map", "resized", "remapped", "returned"}

\* the camera init_undistort_map builds for the object
BuilderCamera ==
    create_camera(self[1]._camera_type,
                  f_from_theta_and_r(self[1]._camera_type,
                                     XRadians(self[1]._rfov),
                                     XDiv(dim[1], Two)).value[1]).value[1]

\* perspective_r / distorted_r at a pixel that is not the grid centre
RadialRatio(p) ==
    XDiv(theta_to_r(BuilderCamera,
                    XArctan(XDiv(Hypot(GridX(p), GridY(p)), pfocal[1]))),
         Hypot(GridX(p), GridY(p)))

\* C3: in the map the builder returns, a grid point at distance zero from
\* the grid centre has map_x = map_y = 0, and every other grid point has
\* map_x = perspective_r / distorted_r * x + x_center and
\* map_y = perspective_r / distorted_r * y + y_center.
C3_CentreZeroElsewhereFormula ==
    MapBuilt =>
        \A p \in DOMAIN map_x[1].val :
            IF GridX(p) = 0 /\ GridY(p) = 0
            THEN map_x[1].val[p] = 0 /\ map_y[1].val[p] = 0
            ELSE /\ map_x[1].val[p] =
                        XAdd(XMul(RadialRatio(p), Fix(GridX(p))),
                             Fix(self[1]._x_center))
                 /\ map_y[1].val[p] =
                        XAdd(XMul(RadialRatio(p), Fix(GridY(p))),
                             Fix(self[1]._y_center))

\* a map of an image of side >= 3: its centre entry is zero although the
\* centre is not pixel 0, and a neighbour of the centre is not zero
C3_Witness ==
    /\ MapBuilt
    /\ self[1]._x_center >= 1
    /\ map_x[1].val[<<self[1]._y_center, self[1]._x_center>>] = 0
    /\ map_y[1].val[<<self[1]._y_center, self[1]._x_center>>] = 0
    /\ map_x[1].val[<<self[1]._y_center + 1, self[1]._x_center + 1>>] > 0

\* C4: for a 512 x 512 source, fov 180, perspective_fov 90, Equidistant,
\* Circular, the map is 512 x 512 and its centre entry (255, 255) is the
\* source coordinate (255, 255).
C4_CentreMapsToCentre ==
    (/\ MapBuilt
     /\ req.image_file.width = 512 /\ req.image_file.height = 512
     /\ req.fov = Fix(180) /\ req.perspective_fov = Fix(90)
     /\ req.camera_type = "EQUIDISTANT" /\ req.format = "CIRCULAR") =>
        /\ map_x[1].shape = <<512, 512>>
        /\ map_y[1].shape = <<512, 512>>
        /\ map_x[1].val[<<255, 255>>] = Fix(255)
        /\ map_y[1].val[<<255, 255>>] = Fix(255)

\* the closed-form derivation of the variant named tag
ClosedForm(tag, theta_max, r_max) ==
    CASE tag = "EQUIDISTANT" -> XDiv(r_max, theta_max)
      [] tag = "EQUISOLID" ->
             XDiv(r_max, XMul(Two, XSin(XDiv(theta_max, Two))))
      [] tag = "ORTHOGRAPHIC" -> XDiv(r_max, XSin(theta_max))
      [] tag = "STEREOGRAPHIC" ->
             XDiv(r_max, XMul(Two, XTan(XDiv(theta_max, Two))))

\* C5: create_camera(type, f) returns for each of the four tags an instance
\* of the matching variant whose focal_length is f, f_from_theta_and_r
\* dispatches to that variant's closed-form derivation, and for any other
\* tag both raise the unknown-camera-type error and return nothing.
C5_FactoryDispatch ==
    /\ camera # <<>> =>
          IF camera[1].camera_type \in CameraType
          THEN /\ camera[1].raised = ""
               /\ Len(camera[1].value) = 1
               /\ camera[1].value[1].cls = camera[1].camera_type
               /\ focal_length(camera[1].value[1]) = camera[1].focal_length
          ELSE camera[1].raised = "ValueError" /\ camera[1].value = <<>>
    /\ fres # <<>> =>
          IF fres[1].camera_type \in CameraType
          THEN /\ fres[1].raised = ""
               /\ fres[1].value =
                     <<ClosedForm(fres[1].camera_type, fres[1].theta, fres[1].r)>>
          ELSE fres[1].raised = "ValueError" /\ fres[1].value = <<>>

\* both factory functions have been called, one with a tag of the
\* enumeration and one with another value
C5_Witness ==
    /\ camera # <<>> /\ fres # <<>>
    /\ camera[1].camera_type = OtherTag /\ camera[1].raised = "ValueError"
    /\ fres[1].camera_type = "STEREOGRAPHIC"
    /\ fres[1].theta = QuarterPi /\ fres[1].r = Fix(2)
    /\ fres[1].value # <<>> /\ IsNum(fres[1].value[1])

\* C6: constructing a camera with focal_length <= 0 fails, so that every
\* instance that exists has focal_length > 0.
C6_FocalLengthPositive ==
    camera # <<>> =>
        /\ camera[1].focal_length <= 0 =>
               camera[1].raised # "" /\ camera[1].value = <<>>
        /\ camera[1].value # <<>> => focal_length(camera[1].value[1]) > 0

\* C7: the map is point-symmetric about the image centre: for grid points
\* (x, y) and (-x, -y), the centre included, the map value at (-x, -y)
\* relative to the centre is the negation of the one at (x, y).
C7_PointSymmetric ==
    MapBuilt =>
        \A p, q \in DOMAIN map_x[1].val :
            (GridX(q) = -GridX(p) /\ GridY(q) = -GridY(p)) =>
                /\ XAdd(map_x[1].val[q], -Fix(self[1]._x_center)) =
                      Neg(XAdd(map_x[1].val[p], -Fix(self[1]._x_center)))
                /\ XAdd(map_y[1].val[q], -Fix(self[1]._y_center)) =
                      Neg(XAdd(map_y[1].val[p], -Fix(self[1]._y_center)))

\* the symmetry of C7 for every pair of grid points other than the centre
SymmetricOffCentre ==
    MapBuilt =>
        \A p, q \in DOMAIN map_x[1].val :
            (/\ GridX(q) = -GridX(p) /\ GridY(q) = -GridY(p)
             /\ ~(GridX(p) = 0 /\ GridY(p) = 0)) =>
                /\ XAdd(map_x[1].val[q], -Fix(self[1]._x_center)) =
                      Neg(XAdd(map_x[1].val[p], -Fix(self[1]._x_center)))
                /\ XAdd(map_y[1].val[q], -Fix(self[1]._y_center)) =
                      Neg(XAdd(map_y[1].val[p], -Fix(self[1]._y_center)))

\* rounding error allowed to a closed-form identity in fixed-point
\* arithmetic, see Near
Tol == 2

\* the camera was created with the focal length that the last
\* f_from_theta_and_r call derived for its type, and that one is finite
Calibrated ==
    /\ pc = "factory" /\ HasCamera /\ fres # <<>>
    /\ fres[1].raised = "" /\ IsNum(fres[1].value[1])
    /\ camera[1].camera_type = fres[1].camera_type
    /\ camera[1].focal_length = fres[1].value[1]

\* radius of the source point a map entry names, from the image centre
SourceRadius(p) ==
    LET dx == XAdd(map_x[1].val[p], -Fix(self[1]._x_center))
        dy == XAdd(map_y[1].val[p], -Fix(self[1]._y_center))
    IN  IF IsNum(dx) /\ IsNum(dy) THEN FixHypot(dx, dy) ELSE NaN

\* the pinhole angle of pixel p is the half field of view
AtHalfFov(p) ==
    XArctan(XDiv(Hypot(GridX(p), GridY(p)), pfocal[1])) = XRadians(self[1]._rfov)

\* C8: a camera built with f = f_from_theta_and_r(type, theta_max, r_max)
\* has theta_to_r(theta_max) = r_max, for each variant and every
\* (theta_max, r_max) with a finite f; in the builder, a pixel whose pinhole
\* angle is radians(fov / 2) gets the source radius dim / 2.
C8_CalibrationIdentity ==
    /\ (/\ Calibrated
        /\ m1 # <<>> /\ m2 = <<>>
        /\ m1[1].op = "theta_to_r" /\ m1[1].arg = fres[1].theta) =>
           Near(m1[1].res, fres[1].r, Tol)
    /\ MapBuilt =>
           \A p \in DOMAIN map_x[1].val :
               AtHalfFov(p) =>
                   Near(SourceRadius(p), XDiv(dim[1], Two), Tol)

\* theta_to_r(theta_max) has been called on a calibrated Equisolid camera
C8_Witness ==
    /\ Calibrated
    /\ fres[1].camera_type = "EQUISOLID"
    /\ fres[1].theta = HalfPi /\ fres[1].r = Fix(2)
    /\ m1 # <<>> /\ m2 = <<>>
    /\ m1[1].op = "theta_to_r" /\ m1[1].arg = HalfPi
    /\ Near(m1[1].res, Fix(2), Tol)

\* a map holds a pixel whose pinhole angle is the half field of view, so
\* the second part of C8 has cases
C8_BuilderCase ==
    /\ MapBuilt
    /\ self[1]._width = 4
    /\ self[1]._camera_type = "STEREOGRAPHIC"
    /\ AtHalfFov(<<1, 3>>)
    /\ Near(SourceRadius(<<1, 3>>), Fix(2), Tol)

\* rounding error allowed to a round trip through a method and its inverse
RoundTripTol == 4

\* C9: for a camera with focal_length > 0, theta_to_r(r_to_theta(r)) = r
\* for r in the image of [0, pi/2) and r_to_theta(theta_to_r(theta)) = theta
\* for theta in [0, pi/2), within a tolerance.
C9_RoundTrip ==
    (/\ pc = "factory" /\ HasCamera
     /\ IsNum(camera[1].focal_length) /\ camera[1].focal_length > 0
     /\ m1 # <<>> /\ m2 # <<>>) =>
        /\ (/\ m2[1].op = "r_to_theta" /\ m1[1].op = "theta_to_r"
            /\ IsNum(m2[1].res) /\ 0 <= m2[1].res /\ m2[1].res < HalfPi) =>
               Near(m1[1].res, m2[1].arg, RoundTripTol)
        /\ (/\ m2[1].op = "theta_to_r" /\ m1[1].op = "r_to_theta"
            /\ 0 <= m2[1].arg /\ m2[1].arg < HalfPi) =>
               Near(m1[1].res, m2[1].arg, RoundTripTol)

\* both round trips have been made, on cameras of two variants
C9_Witness ==
    /\ pc = "factory" /\ HasCamera /\ m1 # <<>> /\ m2 # <<>>
    /\ camera[1].focal_length = Fix(5) \div 2
    /\ \/ /\ camera[1].camera_type = "STEREOGRAPHIC"
          /\ m2[1].op = "theta_to_r" /\ m2[1].arg = Scale
          /\ m2[1].res > Fix(2)
          /\ m1[1].op = "r_to_theta" /\ Near(m1[1].res, Scale, RoundTripTol)
       \/ /\ camera[1].camera_type = "ORTHOGRAPHIC"
          /\ m2[1].op = "r_to_theta" /\ m2[1].arg = Fix(2)
          /\ m2[1].res > Scale \div 2
          /\ m1[1].op = "theta_to_r" /\ Near(m1[1].res, Fix(2), RoundTripTol)

\* the maps are about to be, or have been, handed to cv2.remap
MapsHandedOver == pc \in {"resized", "remapped", "returned"}

\* number of entries a map of the given shape holds in the state
Entries(shape) == Cardinality(Pixels(shape[1], shape[2]))

\* C10: the two maps handed to the resampler have the same shape: (D, D)
\* when no output shape was requested, (H_out, W_out) when the output shape
\* (W_out, H_out) was requested; the resize runs if and only if an output
\* shape was supplied, and on both maps.
C10_MapShapes ==
    MapsHandedOver =>
        /\ map_x[1].shape = map_y[1].shape
        /\ DOMAIN map_x[1].val = DOMAIN map_y[1].val
        /\ Cardinality(DOMAIN map_x[1].val) = Entries(map_x[1].shape)
        /\ IF self[1]._output_shape = <<>>
           THEN /\ resized = {}
                /\ map_x[1].shape = <<self[1]._width, self[1]._width>>
                /\ self[1]._width = Min(req.image_file.width,
                                        req.image_file.height)
           ELSE /\ resized = {"map_x", "map_y"}
                /\ map_x[1].shape = <<self[1]._output_shape[2],
                                      self[1]._output_shape[1]>>

\* maps of a 4 x 4 image resized to 3 columns and 2 rows are handed over
C10_Witness ==
    /\ pc = "resized"
    /\ self[1]._width = 4
    /\ self[1]._output_shape = <<3, 2>>
    /\ resized = {"map_x", "map_y"}
    /\ map_x[1].shape = <<2, 3>>
    /\ map_y[1].shape = <<2, 3>>

\* maps of the natural size are handed over without a resize
C10_WitnessNatural ==
    /\ pc = "resized"
    /\ self[1]._output_shape = <<>>
    /\ resized = {}
    /\ map_x[1].shape = <<3, 3>>

\* the image has been loaded by the constructor
Loaded == InConversion /\ self # <<>>

\* the side of the square crop of the requested file
CropSide == Min(req.image_file.width, req.image_file.height)

\* the values a recentred axis of D pixels takes
AxisRange(D) == -((D - 1) \div 2) .. (D - 1 - (D - 1) \div 2)

\* the coordinates generate_meshgrid returned for the pixel p
MeshX(p) == xy[1].x[p]
MeshY(p) == xy[1].y[p]

\* the grid points of zero radius
ZeroRadius == {p \in DOMAIN xy[1].x : Hypot(MeshX(p), MeshY(p)) = 0}

\* C11: after an image of width x height is loaded, the held image is the
\* centred square crop of side D = min(width, height) at offsets
\* ((width - D) // 2, (height - D) // 2), the stored width and height are D,
\* x_center = y_center = (D - 1) // 2, and the recentred grid takes exactly
\* the integers -(D - 1) // 2 .. D - 1 - (D - 1) // 2 along each axis, with
\* exactly one point of zero radius, at index ((D - 1) // 2, (D - 1) // 2).
\* Of an image larger than MaxDim the kept pixels are compared: they lie in
\* the range, and the first and last pixel take its two ends.
C11_CentredSquareCrop ==
    Loaded =>
        LET D == CropSide
            c == (D - 1) \div 2
        IN  /\ D >= 1
            /\ self[1].image =
                   [x0 |-> (req.image_file.width - D) \div 2,
                    y0 |-> (req.image_file.height - D) \div 2,
                    rows |-> D, cols |-> D]
            /\ self[1]._width = D /\ self[1]._height = D
            /\ self[1]._x_center = c /\ self[1]._y_center = c
            /\ xy # <<>> =>
                /\ xy[1].shape = <<D, D>>
                /\ DOMAIN xy[1].y = DOMAIN xy[1].x
                /\ \A p \in DOMAIN xy[1].x :
                       /\ MeshX(p) \in AxisRange(D)
                       /\ MeshY(p) \in AxisRange(D)
                /\ MeshX(<<0, 0>>) = -c /\ MeshY(<<0, 0>>) = -c
                /\ MeshX(<<D - 1, D - 1>>) = D - 1 - c
                /\ MeshY(<<D - 1, D - 1>>) = D - 1 - c
                /\ D <= MaxDim =>
                    /\ DOMAIN xy[1].x = (0 .. D - 1) \X (0 .. D - 1)
                    /\ \A i \in 0 .. D - 1 :
                           /\ {MeshX(<<i, j>>) : j \in 0 .. D - 1}
                                  = AxisRange(D)
                           /\ {MeshY(<<j, i>>) : j \in 0 .. D - 1}
                                  = AxisRange(D)
                /\ ZeroRadius = {<<c, c>>}

\* a 4 x 3 image is loaded: the crop is 3 x 3 and starts at column 0 (4 - 3
\* is halved downwards), and its grid has been generated
C11_Witness ==
    /\ pc = "got_grid"
    /\ req.image_file.width = 4 /\ req.image_file.height = 3
    /\ self[1].image = [x0 |-> 0, y0 |-> 0, rows |-> 3, cols |-> 3]
    /\ self[1]._x_center = 1
    /\ ZeroRadius = {<<1, 1>>}

\* a 2 x 4 image is loaded: the crop is 2 x 2 from row 1, the centre is
\* index (0, 0) and the axes take the values 0 and 1
C11_WitnessEven ==
    /\ pc = "got_grid"
    /\ req.image_file.width = 2 /\ req.image_file.height = 4
    /\ self[1].image = [x0 |-> 0, y0 |-> 1, rows |-> 2, cols |-> 2]
    /\ self[1]._x_center = 0
    /\ {MeshX(p) : p \in DOMAIN xy[1].x} = {0, 1}

\* the request names a missing or undecodable file, or a format or camera
\* type outside the enumerations
Unsupported ==
    \/ ~req.image_file.exists
    \/ ~req.image_file.decodable
    \/ req.format \notin FisheyeFormat
    \/ req.camera_type \notin CameraType

\* every step of __call__ before the write has completed in this call
AllStepsDone ==
    /\ pc = "remapped"
    /\ dim # <<>> /\ pfocal # <<>> /\ xy # <<>>
    /\ map_x # <<>> /\ map_y # <<>>
    /\ self[1]._output_shape # <<>> => resized = {"map_x", "map_y"}
    /\ perspective_image # <<>>

\* C12: a conversion yields no partial result.  The output file changes only
\* in the last step of a call, after the width, the focal length, the map,
\* the optional resize and the remap of that call, and receives the remapped
\* image; a conversion that failed, or whose file is missing or undecodable
\* or whose format or camera type is unsupported, has written nothing; the
\* object's fields and the request never change once constructed, and the
\* maps a later call hands to the remap equal those of the call before.
C12_NoPartialResult ==
    /\ [](InConversion =>
            /\ (pc = "failed" \/ Unsupported) =>
                   written = <<>> /\ perspective_image = <<>>
            /\ pc = "failed" => raised # ""
            /\ (~req.image_file.exists \/ ~req.image_file.decodable) =>
                   /\ self = <<>> /\ calls = 0
                   /\ pc # "new" => pc = "failed"
            /\ (req.format \notin FisheyeFormat /\ calls > 0) =>
                   pc = "failed" /\ dim = <<>>
            /\ req.camera_type \notin CameraType =>
                   map_x = <<>> /\ map_y = <<>>
                   /\ pc \in {"new", "constructed", "got_width", "got_focal",
                               "got_grid", "failed"}
            /\ (last_maps # <<>> /\ pc \in {"resized", "remapped"}) =>
                   last_maps[1] = <<map_x[1], map_y[1]>>
            /\ last_maps # <<>> => pc # "failed")
    /\ [][/\ written' # written =>
                AllStepsDone /\ pc' = "returned" /\ written' = perspective_image
          /\ self # <<>> => self' = self
          /\ req' = req]_vars

\* a second call of an object that wrote its output has again reached the
\* remap, with the maps of the first call
C12_Witness ==
    /\ pc = "remapped"
    /\ calls = 2
    /\ written # <<>>
    /\ req.image_file.width = 4 /\ req.image_file.height = 3
    /\ last_maps = <<<<map_x[1], map_y[1]>>>>

\* a conversion with an output file failed on the camera type
C12_WitnessCameraType ==
    /\ pc = "failed"
    /\ raised = "ValueError"
    /\ req.camera_type \notin CameraType
    /\ req.format \in FisheyeFormat
    /\ xy # <<>>
    /\ req.output_file # <<>>
    /\ written = <<>>

\* a conversion with an output file failed at construction
C12_WitnessMissingFile ==
    /\ pc = "failed"
    /\ raised = "FileNotFoundError"
    /\ req.output_file # <<>>
    /\ written = <<>>

====
